---- MODULE Spec2Model ----
(***************************************************************************)
(* Model of the PMax audit tool's ingestion-and-analytics engine:          *)
(*   - process_large_csv (pmax_audit_tool.py): chunked folding of a CSV    *)
(*     into running totals and a per-item table, then the Pareto pass;     *)
(*   - assess_product_performance / calculate_funnel_metrics               *)
(*     (data_processing.py): whole-frame coercion, tiers and funnel bands. *)
(* Cells are sequences of one-character strings, numbers are integers      *)
(* (currency in whole units); quotients are kept as [num, den] records and *)
(* compared by cross-multiplication, so no floating-point rounding is      *)
(* modelled.                                                               *)
(***************************************************************************)
EXTENDS Integers, Sequences, FiniteSets, TLC

\* ------------------------------------------------------------------ bounds
\* rows of a streamed file, chunk sizes tried, rows of an assessed frame
MaxRows == 3
MaxChunk == 3
MaxAssessRows == 5
\* lines of a file handed to detect_header_row
MaxLines == 4

\* ------------------------------------------------------ sequences and sums
Min(a, b) == IF a <= b THEN a ELSE b

RECURSIVE SumSeq(_)
SumSeq(s) == IF s = <<>> THEN 0 ELSE Head(s) + SumSeq(Tail(s))

RECURSIVE SumSet(_, _)
SumSet(f, S) ==
  IF S = {} THEN 0
  ELSE LET x == CHOOSE y \in S : TRUE IN f[x] + SumSet(f, S \ {x})

EmptyDict == [k \in {} |-> 0]

\* a quotient a/b kept exact
Ratio(a, b) == [num |-> a, den |-> b]
Zero == Ratio(0, 1)

\* --------------------------------------------------------- cell coercion
Digits == {"0", "1", "2", "3", "4", "5", "6", "7", "8", "9"}

DigitVal(c) ==
  CASE c = "0" -> 0 [] c = "1" -> 1 [] c = "2" -> 2 [] c = "3" -> 3
    [] c = "4" -> 4 [] c = "5" -> 5 [] c = "6" -> 6 [] c = "7" -> 7
    [] c = "8" -> 8 [] c = "9" -> 9

IsDigits(s) == Len(s) > 0 /\ \A i \in 1..Len(s) : s[i] \in Digits

RECURSIVE ToNat(_)
ToNat(s) ==
  IF s = <<>> THEN 0
  ELSE 10 * ToNat(SubSeq(s, 1, Len(s) - 1)) + DigitVal(s[Len(s)])

\* str.replace(c, ""): every occurrence of the character is removed
RECURSIVE StrRemove(_, _)
StrRemove(s, c) ==
  IF s = <<>> THEN <<>>
  ELSE IF Head(s) = c THEN StrRemove(Tail(s), c)
       ELSE <<Head(s)>> \o StrRemove(Tail(s), c)

\* the position of the decimal point of a cell that has one
DecimalPoint(s) == CHOOSE k \in 1..Len(s) : s[k] = "."

\* digits, one decimal point, fractional digits; the numbers of the model are
\* integers, so the cells of its inputs carry only zeros after the point
IsDecimal(s) ==
  /\ Len(s) > 1
  /\ Cardinality({ k \in 1..Len(s) : s[k] = "." }) = 1
  /\ \A k \in 1..Len(s) : k < DecimalPoint(s) => s[k] \in Digits
  /\ \A k \in 1..Len(s) : k > DecimalPoint(s) => s[k] = "0"

\* an unsigned numeral: "12", "12.0", "12.", ".0"
ParseUnsigned(s) ==
  IF IsDigits(s) THEN [ok |-> TRUE, val |-> ToNat(s)]
  ELSE IF IsDecimal(s)
       THEN [ok |-> TRUE, val |-> ToNat(SubSeq(s, 1, DecimalPoint(s) - 1))]
       ELSE [ok |-> FALSE, val |-> 0]

\* pd.to_numeric(..., errors='coerce') on one cell: a signed numeral parses,
\* anything else (empty cell, currency sign, placeholder) is NaN
to_numeric(s) ==
  IF Len(s) > 1 /\ s[1] = "-"
  THEN [ok |-> ParseUnsigned(Tail(s)).ok, val |-> 0 - ParseUnsigned(Tail(s)).val]
  ELSE ParseUnsigned(s)

\* pmax_audit_tool.py:137  remove thousands separators, coerce, fillna(0)
CoerceRequired(cell) ==
  LET r == to_numeric(StrRemove(cell, ",")) IN IF r.ok THEN r.val ELSE 0

\* pmax_audit_tool.py:145-148  drop "%", the whole cell "--" becomes "",
\* coerce; the result is a number or missing
CoerceShare(cell) ==
  LET s1 == StrRemove(cell, "%")
      s2 == IF s1 = <<"-", "-">> THEN <<>> ELSE s1
  IN to_numeric(s2)

\* ------------------------------------------------- process_large_csv: input
\* Column names after chunk.columns.str.strip().str.lower()
required_columns == {"impr.", "clicks", "conversions", "conv. value", "cost"}

AllColumns == required_columns \cup {"item id", "search impr. share"}

\* header variants of the uploaded file: complete, no item id, no share,
\* a required column absent
ColumnChoices ==
  { AllColumns, AllColumns \ {"item id"}, AllColumns \ {"search impr. share"},
    AllColumns \ {"cost"} }

\* an empty "Item ID" cell is read as NaN
NoItem == ""

Row(item, impr, clicks, conversions, value, cost, share) ==
  [item |-> item, impr |-> impr, clicks |-> clicks, conversions |-> conversions,
   value |-> value, cost |-> cost, share |-> share]

\* raw data rows an export can contain
StreamRows ==
  { Row("A", <<"2">>, <<"1">>, <<"1">>, <<"4">>, <<"2">>, <<"5", "0", "%">>),
    Row("B", <<"1">>, <<"0">>, <<"0">>, <<"1">>, <<"0">>, <<"-", "-">>),
    Row(NoItem, <<"3">>, <<"1">>, <<"1">>, <<"4">>, <<"-", "2">>, <<"<", " ", "1", "0">>),
    Row("A", <<"1">>, <<"0">>, <<"0">>, <<"0">>, <<"0">>, <<>>),
    Row("B", <<"2">>, <<"1">>, <<"0">>, <<"-", "1">>, <<"2">>, <<"2", "0">>),
    Row("A", <<"x">>, <<"2">>, <<"1">>, <<"$", "4">>, <<"1", ",", "0">>, <<"1", "0", "%">>) }

Files == UNION { [1..n -> StreamRows] : n \in 0..MaxRows }

ChunkSizes == 1..MaxChunk

\* what makes reading the file raise: nothing; the file is empty (no header
\* line, pd.read_csv raises EmptyDataError); bytes that are not UTF-8 in a
\* data row (the first or the last one)
NoFault == [kind |-> "none", row |-> 0]

Faults(rows) ==
  {NoFault}
    \cup (IF rows = <<>> THEN {[kind |-> "empty", row |-> 0]} ELSE {})
    \cup { [kind |-> "undecodable", row |-> r] : r \in {1, Len(rows)} \cap 1..Len(rows) }

\* ------------------------------------------------ process_large_csv: folding
\* the accumulators initialised at pmax_audit_tool.py:105-114
InitialTotals ==
  [total_impressions |-> 0, total_clicks |-> 0, total_conversions |-> 0,
   total_conversion_value |-> 0, total_cost |-> 0,
   total_search_impr_share |-> 0, valid_search_impr_count |-> 0,
   sku_sales |-> EmptyDict]

MissingColumns(cols) == required_columns \ cols

\* chunk[col].sum() of a coerced required column
ColumnSum(chunk, col) == SumSeq([i \in 1..Len(chunk) |-> CoerceRequired(chunk[i][col])])

\* the coerced "conv. value" of a row
ValueOf(r) == CoerceRequired(r.value)

\* the share column of a chunk, dropna()'d: the defined values only
ShareValue(r, cols) ==
  IF "search impr. share" \in cols /\ CoerceShare(r.share).ok
  THEN CoerceShare(r.share).val ELSE 0
ShareCounted(r, cols) == IF "search impr. share" \in cols THEN 1 ELSE 0

ShareDefined(r, cols) ==
  IF "search impr. share" \in cols /\ CoerceShare(r.share).ok THEN 1 ELSE 0

GroupByAnyKey(chunk, cols) ==
  LET keys == IF "item id" \in cols
              THEN { chunk[i].item : i \in 1..Len(chunk) }
              ELSE {}
      sale(k, r) == IF r.item = k THEN ValueOf(r) ELSE 0
  IN [k \in keys |-> SumSeq([i \in 1..Len(chunk) |-> sale(k, chunk[i])])]

\* chunk.groupby("item id")["conv. value"].sum(): NaN keys are dropped
GroupBySku(chunk, cols) ==
  LET keys == IF "item id" \in cols
              THEN { chunk[i].item : i \in 1..Len(chunk) } \ {NoItem}
              ELSE {}
      sale(k, r) == IF r.item = k THEN ValueOf(r) ELSE 0
  IN [k \in keys |-> SumSeq([i \in 1..Len(chunk) |-> sale(k, chunk[i])])]

OverwriteSale(old, sale) == sale

\* sku_sales[sku] += sale on a defaultdict(float)
MergeSale(old, sale) == old + sale

MergeSkuSales(tbl, group) ==
  [k \in DOMAIN tbl \cup DOMAIN group |->
     IF k \in DOMAIN group
     THEN MergeSale(IF k \in DOMAIN tbl THEN tbl[k] ELSE 0, group[k])
     ELSE tbl[k]]

AssignTotal(total, chunkSum) == chunkSum

\* pmax_audit_tool.py:164-167: the chunk's per-item sums added into sku_sales
FoldSkuSales(tbl, chunk, cols) == MergeSkuSales(tbl, GroupBySku(chunk, cols))

\* total += chunk[col].sum()
AddToTotal(total, chunkSum) == total + chunkSum

\* one iteration of the chunk loop past the column check
FoldChunk(acc, chunk, cols) ==
  [total_impressions |-> AddToTotal(acc.total_impressions, ColumnSum(chunk, "impr")),
   total_clicks |-> AddToTotal(acc.total_clicks, ColumnSum(chunk, "clicks")),
   total_conversions |->
     AddToTotal(acc.total_conversions, ColumnSum(chunk, "conversions")),
   total_conversion_value |->
     AddToTotal(acc.total_conversion_value, ColumnSum(chunk, "value")),
   total_cost |-> AddToTotal(acc.total_cost, ColumnSum(chunk, "cost")),
   total_search_impr_share |->
     AddToTotal(acc.total_search_impr_share,
                SumSeq([i \in 1..Len(chunk) |-> ShareValue(chunk[i], cols)])),
   valid_search_impr_count |->
     AddToTotal(acc.valid_search_impr_count,
                SumSeq([i \in 1..Len(chunk) |-> ShareDefined(chunk[i], cols)])),
   sku_sales |-> FoldSkuSales(acc.sku_sales, chunk, cols)]

\* the chunk pd.read_csv(chunksize=k) yields at row position p
ChunkAt(rows, p, k) == SubSeq(rows, p, Min(p + k - 1, Len(rows)))

\* ------------------------------------------------- process_large_csv: Pareto
\* sorted(sku_sales.items(), key=lambda x: x[1], reverse=True), as the
\* sequence of the ranked items
RECURSIVE sorted_skus(_)
sorted_skus(tbl) ==
  IF DOMAIN tbl = {} THEN <<>>
  ELSE LET top == CHOOSE k \in DOMAIN tbl : \A j \in DOMAIN tbl : tbl[j] <= tbl[k]
       IN <<top>> \o sorted_skus([j \in DOMAIN tbl \ {top} |-> tbl[j]])

ReachedThresholdExclusive(acc, total) ==
  IF total # 0 THEN 10 * acc > 8 * total ELSE acc > 0

\* accumulated_sales >= pareto_threshold, with
\* pareto_threshold = 0.8 * total_conversion_value if total_conversion_value else 0
ReachedThreshold(acc, total) ==
  IF total # 0 THEN 10 * acc >= 8 * total ELSE acc >= 0

\* round(num/den, 2) in hundredths, den > 0 (ties to even)
Round2(num, den) ==
  LET f == (100 * num) \div den
      rem == 100 * num - f * den
  IN IF 2 * rem < den THEN f
     ELSE IF 2 * rem > den THEN f + 1
     ELSE IF f % 2 = 0 THEN f ELSE f + 1

\* average_roas = total_conversion_value / total_cost if total_cost > 0 else 0
GuardedRoas(value, cost) == IF cost > 0 THEN Ratio(value, cost) ELSE Zero

\* average_search_impr_share, guarded by valid_search_impr_count > 0
GuardedShare(sum, count) == IF count > 0 THEN Ratio(sum, count) ELSE Zero

\* pareto_percentage = count / total_unique_skus * 100 if total_unique_skus else 0
ParetoPercentage(count, unique) ==
  IF unique # 0 THEN Ratio(100 * count, unique) ELSE Zero

\* ------------------------------------------ assess_product_performance: input
\* str.lower() on one character
str_lower(c) ==
  CASE c = "A" -> "a"
    [] c = "B" -> "b"
    [] c = "C" -> "c"
    [] c = "D" -> "d"
    [] c = "E" -> "e"
    [] c = "F" -> "f"
    [] c = "G" -> "g"
    [] c = "H" -> "h"
    [] c = "I" -> "i"
    [] c = "J" -> "j"
    [] c = "K" -> "k"
    [] c = "L" -> "l"
    [] c = "M" -> "m"
    [] c = "N" -> "n"
    [] c = "O" -> "o"
    [] c = "P" -> "p"
    [] c = "Q" -> "q"
    [] c = "R" -> "r"
    [] c = "S" -> "s"
    [] c = "T" -> "t"
    [] c = "U" -> "u"
    [] c = "V" -> "v"
    [] c = "W" -> "w"
    [] c = "X" -> "x"
    [] c = "Y" -> "y"
    [] c = "Z" -> "z"
    [] OTHER -> c

\* str.strip(): leading and trailing blanks removed
RECURSIVE StrStrip(_)
StrStrip(s) ==
  IF s = <<>> THEN s
  ELSE IF Head(s) = " " THEN StrStrip(Tail(s))
  ELSE IF s[Len(s)] = " " THEN StrStrip(SubSeq(s, 1, Len(s) - 1))
  ELSE s

\* str.replace(c, d) for single characters
StrReplace(s, c, d) == [i \in 1..Len(s) |-> IF s[i] = c THEN d ELSE s[i]]

\* data_processing.py:9-15: strip, lower, " " to "_", "." to "_"
NormalizeHeader(h) ==
  LET stripped == StrStrip(h)
      lowered == [i \in 1..Len(stripped) |-> str_lower(stripped[i])]
  IN StrReplace(StrReplace(lowered, " ", "_"), ".", "_")

\* data_processing.py:17-24
rename_mapping ==
     (<<"i", "m", "p", "r", "_">>
        :> <<"i", "m", "p", "r", "e", "s", "s", "i", "o", "n", "s">>)
  @@ (<<"c", "o", "n", "v", "_", "_", "v", "a", "l", "u", "e">>
        :> <<"c", "o", "n", "v", "e", "r", "s", "i", "o", "n", "_", "v", "a", "l", "u", "e">>)
  @@ (<<"c", "o", "n", "v", "_", "_", "v", "a", "l", "u", "e", "_", "/", "_", "c", "o", "s", "t">>
        :> <<"c", "o", "n", "v", "e", "r", "s", "i", "o", "n", "_", "v", "a", "l", "u", "e", "_", "c", "o", "s", "t">>)
  @@ (<<"s", "e", "a", "r", "c", "h", "_", "i", "m", "p", "r", "_", "s", "h", "a", "r", "e">>
        :> <<"s", "e", "a", "r", "c", "h", "_", "i", "m", "p", "r", "e", "s", "s", "i", "o", "n", "_", "s", "h", "a", "r", "e">>)
  @@ (<<"s", "e", "a", "r", "c", "h", "_", "i", "m", "p", "r", "_", "_", "s", "h", "a", "r", "e">>
        :> <<"s", "e", "a", "r", "c", "h", "_", "i", "m", "p", "r", "e", "s", "s", "i", "o", "n", "_", "s", "h", "a", "r", "e">>)
  @@ (<<"c", "o", "s", "t">>
        :> <<"c", "o", "s", "t">>)

KeepColumn(c) == c

\* df.rename(columns=rename_mapping) on one column name
RenameColumn(c) == IF c \in DOMAIN rename_mapping THEN rename_mapping[c] ELSE c

\* clean_column_names on one header
clean_column_names(h) == RenameColumn(NormalizeHeader(h))

\* the column names the analysis looks up, as the field names of a row
ColumnName ==
     (<<"i", "t", "e", "m", "_", "i", "d">> :> "item_id")
  @@ (<<"i", "m", "p", "r", "e", "s", "s", "i", "o", "n", "s">> :> "impressions")
  @@ (<<"c", "l", "i", "c", "k", "s">> :> "clicks")
  @@ (<<"c", "o", "n", "v", "e", "r", "s", "i", "o", "n", "s">> :> "conversions")
  @@ (<<"c", "o", "n", "v", "e", "r", "s", "i", "o", "n", "_", "v", "a", "l", "u", "e">> :> "conversion_value")
  @@ (<<"c", "o", "s", "t">> :> "cost")
  @@ (<<"s", "e", "a", "r", "c", "h", "_", "i", "m", "p", "r", "e", "s", "s", "i", "o", "n", "_", "s", "h", "a", "r", "e">> :> "search_impression_share")
  @@ (<<"c", "o", "n", "v", "e", "r", "s", "i", "o", "n", "_", "v", "a", "l", "u", "e", "_", "c", "o", "s", "t">> :> "conversion_value_cost")

\* the header row of the documented export format
ExportHeaders ==
  << <<"I", "t", "e", "m", " ", "I", "D">>,
     <<"I", "m", "p", "r", ".">>,
     <<"C", "l", "i", "c", "k", "s">>,
     <<"C", "o", "n", "v", "e", "r", "s", "i", "o", "n", "s">>,
     <<"C", "o", "n", "v", ".", " ", "v", "a", "l", "u", "e">>,
     <<"C", "o", "s", "t">>,
     <<"S", "e", "a", "r", "c", "h", " ", "i", "m", "p", "r", ".", " ", "s", "h", "a", "r", "e">> >>

\* the same export with other spellings and two further columns
VariantHeaders ==
  << <<"I", "t", "e", "m", " ", "I", "D">>,
     <<"I", "M", "P", "R", ".">>,
     <<"C", "l", "i", "c", "k", "s">>,
     <<"C", "o", "n", "v", "e", "r", "s", "i", "o", "n", "s">>,
     <<"C", "o", "n", "v", ".", " ", "v", "a", "l", "u", "e">>,
     <<" ", "c", "o", "s", "t", " ">>,
     <<"S", "e", "a", "r", "c", "h", " ", "I", "m", "p", "r", ".", " ", "S", "h", "a", "r", "e">>,
     <<"C", "o", "n", "v", ".", " ", "v", "a", "l", "u", "e", " ", "/", " ", "c", "o", "s", "t">>,
     <<"A", "v", "g", ".", " ", "C", "P", "C">>,
     <<"T", "i", "t", "l", "e">> >>

\* the header row without its i-th column
WithoutColumn(hs, i) == [j \in 1..(Len(hs) - 1) |-> IF j < i THEN hs[j] ELSE hs[j + 1]]

\* uploaded header rows: the documented one; without Clicks, without Cost,
\* without the share; the variant spellings
HeaderChoices ==
  { ExportHeaders, WithoutColumn(ExportHeaders, 3), WithoutColumn(ExportHeaders, 6),
    WithoutColumn(ExportHeaders, 7), VariantHeaders }

\* df.columns read as the row fields they name
ColumnsOf(hs) ==
  { ColumnName[hs[i]] : i \in { j \in 1..Len(hs) : hs[j] \in DOMAIN ColumnName } }

ARow(item, impr, clicks, conversions, value, cost, share) ==
  [item_id |-> item, impressions |-> impr, clicks |-> clicks,
   conversions |-> conversions, conversion_value |-> value, cost |-> cost,
   search_impression_share |-> share]

\* raw rows of the frame handed to assess_product_performance
AssessRows ==
  { ARow("A", <<"9">>, <<"1">>, <<"1">>, <<"$", "4">>, <<"2">>, <<"5", "0", "%">>),
    ARow("B", <<"4">>, <<"0">>, <<"0">>, <<"4">>, <<"0">>, <<"-", "-">>),
    ARow("A", <<"1", "1">>, <<"1">>, <<"2">>, <<"-", "3">>, <<"1">>, <<"<", " ", "1", "0">>),
    ARow("C", <<"8">>, <<"2">>, <<"0">>, <<"x">>, <<"4">>, <<>>) }

\* the frames with at least one row
Frames == UNION { [1..n -> AssessRows] : n \in 1..MaxAssessRows }

\* ----------------------------------------- assess_product_performance: steps
KeepCell(cell) == cell

\* str.replace(r'[^0-9.]', '', regex=True)
StripNonNumeric(cell) == SelectSeq(cell, LAMBDA c : c \in Digits \cup {"."})

\* data_processing.py:153  strip, coerce, fillna(0)
CoerceNumeric(cell) ==
  LET r == to_numeric(StripNonNumeric(cell)) IN IF r.ok THEN r.val ELSE 0

numeric_columns ==
  {"impressions", "clicks", "conversions", "conversion_value",
   "conversion_value_cost", "search_impression_share", "cost"}

\* for col in numeric_columns: if col in df.columns: df[col] = ...
CoerceRow(r, cols) ==
  [f \in DOMAIN r |->
     IF f \in numeric_columns \cap cols THEN CoerceNumeric(r[f]) ELSE r[f]]

\* str(x) of a non-negative number of an int64 or a float64 column
RECURSIVE ToChars(_)
ToChars(n) ==
  IF n < 10 THEN <<CHOOSE c \in Digits : DigitVal(c) = n>>
  ELSE ToChars(n \div 10) \o ToChars(n % 10)

FormatNumber(n, isFloat) == IF isFloat THEN ToChars(n) \o <<".", "0">> ELSE ToChars(n)

\* the coerced column is float64 once a cell was NaN or had a decimal point,
\* int64 otherwise
IsFloatColumn(cells) ==
  \E i \in 1..Len(cells) : ~IsDigits(StripNonNumeric(cells[i]))

\* str.rstrip("%")
RECURSIVE RStrip(_, _)
RStrip(s, c) ==
  IF s # <<>> /\ s[Len(s)] = c THEN RStrip(SubSeq(s, 1, Len(s) - 1), c) ELSE s

\* data_processing.py:157-164 on one cell of the already coerced column:
\* astype(str), replace("--", None), replace("< 10", "5"), rstrip("%"), coerce
ShareSecondPass(n, isFloat) ==
  LET text == FormatNumber(n, isFloat)
  IN IF text = <<"-", "-">> THEN [ok |-> FALSE, val |-> 0]
     ELSE IF text = <<"<", " ", "1", "0">> THEN to_numeric(<<"5">>)
     ELSE to_numeric(RStrip(text, "%"))

\* data_processing.py:149-164 for the share column: the cells after both passes
ShareColumn(frame) ==
  LET cells == [i \in 1..Len(frame) |-> frame[i].search_impression_share]
  IN [i \in 1..Len(frame) |->
        ShareSecondPass(CoerceNumeric(cells[i]), IsFloatColumn(cells))]

\* a number that may be NaN
Finite(num, den) == [ok |-> TRUE, num |-> num, den |-> den]
NaN == [ok |-> FALSE, num |-> 0, den |-> 1]

\* df["search_impression_share"].mean(): over the non-missing cells, NaN when
\* there is none; 0 without the column
AverageShare(frame, cols) ==
  IF "search_impression_share" \in cols
  THEN LET col == ShareColumn(frame)
           defined == { i \in 1..Len(col) : col[i].ok }
       IN IF defined = {} THEN NaN
          ELSE Finite(SumSet([i \in defined |-> col[i].val], defined),
                      Cardinality(defined))
  ELSE Finite(0, 1)

ColumnTotal(frame, cols, col) ==
  IF col \in cols THEN SumSeq([i \in 1..Len(frame) |-> frame[i][col]]) ELSE 0

\* roas = total_conversion_value / total_cost if total_cost > 0 else 0
AssessRoas(value, cost) == IF cost > 0 THEN Ratio(value, cost) ELSE Zero

\* df.sort_values(by="conversion_value", ascending=False): every descending
\* arrangement of the rows (the order among equal values is not fixed)
RECURSIVE SortedFrames(_, _)
SortedFrames(frame, idx) ==
  IF idx = {} THEN { <<>> }
  ELSE LET tops == { i \in idx : \A j \in idx :
                       frame[j].conversion_value <= frame[i].conversion_value }
       IN UNION { { <<frame[i]>> \o rest : rest \in SortedFrames(frame, idx \ {i}) }
                  : i \in tops }

sku_thresholds == <<5, 10, 20, 50>>

\* num_skus = int(df.shape[0] * (threshold / 100))
NumSkus(rows, threshold) == (rows * threshold) \div 100

\* sku_roas = conversion_value / total_cost_tier if total_cost_tier > 0 else 0
TierRoas(value, cost) == IF cost > 0 THEN Ratio(value, cost) ELSE Zero

\* data_processing.py:189-200: the entry of one threshold
TierEntry(sorted, rows, threshold, total) ==
  LET num_skus == NumSkus(rows, threshold)
      top_n_skus == SubSeq(sorted, 1, Min(num_skus, Len(sorted)))
      conversion_value ==
        SumSeq([i \in 1..Len(top_n_skus) |-> top_n_skus[i].conversion_value])
      total_cost_tier == SumSeq([i \in 1..Len(top_n_skus) |-> top_n_skus[i].cost])
  IN [sku_count |-> num_skus,
      percentage |-> IF total > 0 THEN Ratio(100 * conversion_value, total) ELSE Zero,
      conversion_value |-> conversion_value,
      roas |-> TierRoas(conversion_value, total_cost_tier)]

\* ------------------------------------------------ calculate_funnel_metrics
RECURSIVE ProdSet(_, _, _)
ProdSet(frame, col, S) ==
  IF S = {} THEN 1
  ELSE LET x == CHOOSE y \in S : TRUE IN frame[x][col] * ProdSet(frame, col, S \ {x})

\* the mean of frame[i][num] / frame[i][den] over the rows in idx, exact
MeanOver(frame, num, den, idx) ==
  IF idx = {} THEN Zero
  ELSE LET D == ProdSet(frame, den, idx)
           S == SumSet([i \in idx |-> frame[i][num] * (D \div frame[i][den])], idx)
       IN Ratio(S, D * Cardinality(idx))

\* df[ratio].mean() if df[ratio].notnull().any() else 0; the ratio is None
\* unless the denominator is > 0
MeanRatio(frame, num, den) ==
  MeanOver(frame, num, den, { i \in 1..Len(frame) : frame[i][den] > 0 })

\* the sample variance (ddof = 1) of frame[i][num] / frame[i][den] over the
\* rows in idx, exact; it does not exist for fewer than two rows
VarianceOver(frame, num, den, idx) ==
  LET n == Cardinality(idx)
      D == ProdSet(frame, den, idx)
      X == [i \in idx |-> frame[i][num] * (D \div frame[i][den])]
      S == SumSet(X, idx)
      dev == [i \in idx |-> (n * X[i] - S) * (n * X[i] - S)]
  IN IF n < 2 THEN NaN
     ELSE Finite(SumSet(dev, idx), D * D * n * n * (n - 1))

\* df[ratio].std() if df[ratio].notnull().any() else 0, as the variance under
\* the square root: pandas' std is the sample one and is NaN for one value
StdRatio(frame, num, den) ==
  LET idx == { i \in 1..Len(frame) : frame[i][den] > 0 }
  IN IF idx = {} THEN Finite(0, 1) ELSE VarianceOver(frame, num, den, idx)

\* (count / total_products * 100) if total_products > 0 else 0
BandPercent(count, total_products) ==
  IF total_products > 0 THEN Ratio(100 * count, total_products) ELSE Zero

LtScaled(a, b, p, avg) == 10 * a * avg.den < p * avg.num * b

\* a/b <= avg * p/10 for b > 0
LeqScaled(a, b, p, avg) == 10 * a * avg.den <= p * avg.num * b

\* np.select(conditions, ['High', 'Moderate', 'Low', 'Low'], default='Unknown')
\* for a row with numerator a and denominator b
Category(a, b, avg) ==
  IF b > 0 /\ LeqScaled(a, b, 9, avg) THEN "High"
  ELSE IF b > 0 /\ ~LeqScaled(a, b, 9, avg) /\ LeqScaled(a, b, 11, avg) THEN "Moderate"
  ELSE IF b > 0 /\ ~LeqScaled(a, b, 11, avg) THEN "Low"
  ELSE IF b = 0 THEN "Low"
  ELSE "Unknown"

FunnelColumns == {"impressions", "clicks", "conversions"}

\* the ipc_category / cpc_category columns added to df
Categorize(frame) ==
  LET avg_ipc == MeanRatio(frame, "impressions", "clicks")
      avg_cpc == MeanRatio(frame, "clicks", "conversions")
  IN [i \in 1..Len(frame) |->
        [ipc_category |-> Category(frame[i].impressions, frame[i].clicks, avg_ipc),
         cpc_category |-> Category(frame[i].clicks, frame[i].conversions, avg_cpc)]]

\* value_counts().get(band, 0)
CountBand(cats, field, band) ==
  Cardinality({ i \in 1..Len(cats) : cats[i][field] = band })

\* the dict returned by calculate_funnel_metrics; the std entries hold the
\* variance, the square root is not taken
calculate_funnel_metrics(frame, cols) ==
  IF FunnelColumns \subseteq cols
  THEN LET cats == Categorize(frame)
           total_products == Len(frame)
           count(field, band) == CountBand(cats, field, band)
       IN [avg_impressions_per_click |-> MeanRatio(frame, "impressions", "clicks"),
           std_impressions_per_click |-> StdRatio(frame, "impressions", "clicks"),
           ipc_high_count |-> count("ipc_category", "High"),
           ipc_high_percent |-> BandPercent(count("ipc_category", "High"), total_products),
           ipc_moderate_count |-> count("ipc_category", "Moderate"),
           ipc_moderate_percent |->
             BandPercent(count("ipc_category", "Moderate"), total_products),
           ipc_low_count |-> count("ipc_category", "Low"),
           ipc_low_percent |-> BandPercent(count("ipc_category", "Low"), total_products),
           avg_clicks_per_conversion |-> MeanRatio(frame, "clicks", "conversions"),
           std_clicks_per_conversion |-> StdRatio(frame, "clicks", "conversions"),
           cpc_high_count |-> count("cpc_category", "High"),
           cpc_high_percent |-> BandPercent(count("cpc_category", "High"), total_products),
           cpc_moderate_count |-> count("cpc_category", "Moderate"),
           cpc_moderate_percent |->
             BandPercent(count("cpc_category", "Moderate"), total_products),
           cpc_low_count |-> count("cpc_category", "Low"),
           cpc_low_percent |-> BandPercent(count("cpc_category", "Low"), total_products)]
  ELSE [avg_impressions_per_click |-> Zero, std_impressions_per_click |-> Finite(0, 1),
        ipc_high_count |-> 0, ipc_high_percent |-> Zero,
        ipc_moderate_count |-> 0, ipc_moderate_percent |-> Zero,
        ipc_low_count |-> 0, ipc_low_percent |-> Zero,
        avg_clicks_per_conversion |-> Zero, std_clicks_per_conversion |-> Finite(0, 1),
        cpc_high_count |-> 0, cpc_high_percent |-> Zero,
        cpc_moderate_count |-> 0, cpc_moderate_percent |-> Zero,
        cpc_low_count |-> 0, cpc_low_percent |-> Zero]

\* ------------------------------------------------------ detect_header_row
\* a title line of the export
TitleLine ==
  <<"R", "e", "p", "o", "r", "t">>

\* a title line that mentions one of the two header tokens
ItemListLine ==
  <<"I", "t", "e", "m", " ", "I", "D", " ", "l", "i", "s", "t">>

\* the header line of the documented format
FullHeaderLine ==
  <<"I", "t", "e", "m", " ", "I", "D", ",", "I", "m", "p", "r", ".", ",", "C", "l", "i", "c", "k", "s", ",", "C", "o", "n", "v", "e", "r", "s", "i", "o", "n", "s", ",", "C", "o", "n", "v", ".", " ", "v", "a", "l", "u", "e", ",", "C", "o", "s", "t", ",", "S", "e", "a", "r", "c", "h", " ", "i", "m", "p", "r", ".", " ", "s", "h", "a", "r", "e">>

\* a header line without the Item ID column
NoItemHeaderLine ==
  <<" ", "I", "m", "p", "r", ".", ",", "C", "l", "i", "c", "k", "s", ",", "C", "o", "n", "v", "e", "r", "s", "i", "o", "n", "s", ",", "C", "o", "n", "v", ".", " ", "v", "a", "l", "u", "e", ",", "C", "O", "S", "T">>

\* a data line
DataLine ==
  <<"A", ",", "2", ",", "1", ",", "1", ",", "4", ",", "2", ",", "5", "0", "%">>

\* an empty line
BlankLine == <<>>

LineKinds ==
  {TitleLine, ItemListLine, FullHeaderLine, NoItemHeaderLine, DataLine, BlankLine}

\* the uploaded file as its lines
LineFiles == UNION { [1..n -> LineKinds] : n \in 0..MaxLines }

\* bytes that are not UTF-8 in the first or in the last line, or none
LineFaults(ls) ==
  {NoFault} \cup { [kind |-> "undecodable", row |-> r] : r \in {1, Len(ls)} \cap 1..Len(ls) }

\* pat is a prefix of s
StartsWith(s, pat) == Len(pat) <= Len(s) /\ SubSeq(s, 1, Len(pat)) = pat

\* pat in s
RECURSIVE Contains(_, _)
Contains(s, pat) ==
  IF Len(s) < Len(pat) THEN FALSE
  ELSE StartsWith(s, pat) \/ Contains(Tail(s), pat)

MentionsItemId(line) == Contains(line, <<"I", "t", "e", "m", " ", "I", "D">>)

\* "Item ID" in line and "Impr." in line
IsHeaderLine(line) ==
  Contains(line, <<"I", "t", "e", "m", " ", "I", "D">>) /\ Contains(line, <<"I", "m", "p", "r", ".">>)

\* the fields of a line, split at the commas
RECURSIVE SplitLine(_, _)
SplitLine(line, field) ==
  IF line = <<>> THEN <<field>>
  ELSE IF Head(line) = "," THEN <<field>> \o SplitLine(Tail(line), <<>>)
  ELSE SplitLine(Tail(line), Append(field, Head(line)))

\* chunk.columns.str.strip().str.lower() on one column name
NormalizeColumn(f) ==
  LET stripped == StrStrip(f) IN [i \in 1..Len(stripped) |-> str_lower(stripped[i])]

\* the normalised column names process_large_csv looks up
StreamColumnName ==
     (<<"i", "t", "e", "m", " ", "i", "d">> :> "item id")
  @@ (<<"i", "m", "p", "r", ".">> :> "impr.")
  @@ (<<"c", "l", "i", "c", "k", "s">> :> "clicks")
  @@ (<<"c", "o", "n", "v", "e", "r", "s", "i", "o", "n", "s">> :> "conversions")
  @@ (<<"c", "o", "n", "v", ".", " ", "v", "a", "l", "u", "e">> :> "conv. value")
  @@ (<<"c", "o", "s", "t">> :> "cost")
  @@ (<<"s", "e", "a", "r", "c", "h", " ", "i", "m", "p", "r", ".", " ", "s", "h", "a", "r", "e">> :> "search impr. share")

\* the columns of every chunk when the reader takes line as the header
ColumnsOfLine(line) ==
  LET fields == SplitLine(line, <<>>)
      named == { i \in 1..Len(fields) : NormalizeColumn(fields[i]) \in DOMAIN StreamColumnName }
  IN { StreamColumnName[NormalizeColumn(fields[i])] : i \in named }

\* pd.read_csv(skiprows=n): n lines are dropped, then empty lines; the index
\* of the line taken as the header, Len(ls) when there is none
FirstLineFrom(ls, n) ==
  LET rest == { i \in n..(Len(ls) - 1) : ls[i + 1] # BlankLine }
  IN IF rest = {} THEN Len(ls) ELSE CHOOSE i \in rest : \A j \in rest : i <= j

\* the page before the upload is processed
BlankPage == [error |-> FALSE, rendered |-> {}, sku_count_80 |-> 0]

VARIABLES
  file_rows,                \* the data rows below the header
  fault,                    \* what makes reading the file raise, if anything
  columns,                  \* the normalised column names of every chunk
  chunk_size,
  pc,                       \* "chunks", "pareto", "final", "done"
  pos,                      \* the next row pd.read_csv will yield
  totals,                   \* the running totals and sku_sales
  accumulated_sales,
  sku_count_for_pareto,
  average_roas,
  insights,                 \* the returned insights dict
  returned_sku_sales,       \* the returned per-item table
  ui                        \* the page: whether st.error was called, what is rendered

\* assess_product_performance
VARIABLES
  df,                       \* the frame: raw cells, then coerced numbers
  headers,                  \* df.columns: the header row, raw and then cleaned
  df_columns,               \* the cleaned columns as row fields
  apc,                      \* "idle", "clean", "totals", "tiers", "funnel", "assemble", "done"
  overall,                  \* total_conversion_value, total_cost, roas
  df_sorted,
  tier,                     \* index into sku_thresholds
  sku_contribution,
  categories,               \* the category columns calculate_funnel_metrics adds
  funnel_metrics,
  report                    \* the returned insights

\* detect_header_row and the opening of the reader
VARIABLES
  lines,                    \* the lines of the uploaded file
  dpc,                      \* "idle", "scan", then "found", "default" or "raised"
  scan,                     \* the index i of enumerate(f)
  header_row,               \* what detect_header_row returned
  header_line               \* the index of the line the reader took as the header

detectVars == << lines, dpc, scan, header_row, header_line >>

streamVars ==
  << file_rows, fault, columns, chunk_size, pc, pos, totals, accumulated_sales,
     sku_count_for_pareto, average_roas, insights, returned_sku_sales, ui >>

assessVars ==
  << df, headers, df_columns, apc, overall, df_sorted, tier, sku_contribution,
     categories, funnel_metrics, report >>

vars == << streamVars, assessVars, detectVars >>

DetectIdle ==
  /\ lines = <<>>
  /\ dpc = "idle"
  /\ scan = 0
  /\ header_row = 0
  /\ header_line = 0

AssessIdle ==
  /\ df = <<>>
  /\ headers = <<>>
  /\ df_columns = {}
  /\ apc = "idle"
  /\ overall = EmptyDict
  /\ df_sorted = <<>>
  /\ tier = 1
  /\ sku_contribution = EmptyDict
  /\ categories = <<>>
  /\ funnel_metrics = EmptyDict
  /\ report = EmptyDict

Init ==
  /\ file_rows \in Files
  /\ fault \in Faults(file_rows)
  /\ columns \in ColumnChoices
  /\ chunk_size \in ChunkSizes
  /\ pc = "chunks"
  /\ pos = 1
  /\ totals = InitialTotals
  /\ accumulated_sales = 0
  /\ sku_count_for_pareto = 0
  /\ average_roas = Zero
  /\ insights = EmptyDict
  /\ returned_sku_sales = EmptyDict
  /\ ui = BlankPage
  /\ AssessIdle
  /\ DetectIdle

\* the insights dict of pmax_audit_tool.py:190-200; rounded entries in hundredths
BuildInsights(acc, roas, count) ==
  LET share == GuardedShare(acc.total_search_impr_share, acc.valid_search_impr_count)
      pct == ParetoPercentage(count, Cardinality(DOMAIN acc.sku_sales))
  IN [k \in {"Total Impressions", "Total Clicks", "Total Conversions",
             "Total Conversion Value", "Total Cost", "Average ROAS",
             "Average Search Impression Share", "SKUs Driving 80% Sales",
             "Percentage of SKUs Driving 80% Sales"} |->
       CASE k = "Total Impressions" -> acc.total_impressions
         [] k = "Total Clicks" -> acc.total_clicks
         [] k = "Total Conversions" -> acc.total_conversions
         [] k = "Total Conversion Value" -> acc.total_conversion_value
         [] k = "Total Cost" -> acc.total_cost
         [] k = "Average ROAS" -> Round2(roas.num, roas.den)
         [] k = "Average Search Impression Share" -> Round2(share.num, share.den)
         [] k = "SKUs Driving 80% Sales" -> count
         [] k = "Percentage of SKUs Driving 80% Sales" -> Round2(pct.num, pct.den)]

PartialReturn(acc) ==
  [insights |-> BuildInsights(acc, Zero, 0), sku_sales |-> acc.sku_sales]

\* what the function returns when a chunk lacks a required column
MissingColumnsReturn(acc) == [insights |-> EmptyDict, sku_sales |-> EmptyDict]

\* the reader yields the chunk at pos: the file has a header line and the
\* chunk holds no undecodable row
ChunkReadable ==
  /\ pos <= Len(file_rows)
  /\ fault.kind # "empty"
  /\ fault.kind = "undecodable" =>
       fault.row > pos + Len(ChunkAt(file_rows, pos, chunk_size)) - 1

\* the reader raises instead of yielding the chunk at pos: at once on an empty
\* file; on undecodable bytes when the chunk holds them, or earlier, when the
\* reader's buffer runs ahead of the chunk
ReadRaises ==
  \/ fault.kind = "empty" /\ pos = 1
  \/ fault.kind = "undecodable" /\ pos <= fault.row

ReturnTotalsSoFar(acc) ==
  [insights |-> BuildInsights(acc, Zero, 0), sku_sales |-> acc.sku_sales]

\* pmax_audit_tool.py:203-206: what the except clause returns
ExceptionReturn(acc) == [insights |-> EmptyDict, sku_sales |-> EmptyDict]

\* pmax_audit_tool.py:117-123, 203-206: reading the next chunk raises and the
\* except clause returns
CatchException ==
  /\ pc = "chunks"
  /\ ReadRaises
  /\ insights' = ExceptionReturn(totals).insights
  /\ returned_sku_sales' = ExceptionReturn(totals).sku_sales
  /\ ui' = [ui EXCEPT !.error = TRUE]
  /\ pc' = "done"
  /\ UNCHANGED << file_rows, fault, columns, chunk_size, pos, totals, accumulated_sales,
                  sku_count_for_pareto, average_roas, assessVars, detectVars >>

\* pmax_audit_tool.py:128-133: a chunk without a required column
AbortMissingColumns ==
  /\ pc = "chunks"
  /\ ChunkReadable
  /\ MissingColumns(columns) # {}
  /\ insights' = MissingColumnsReturn(totals).insights
  /\ returned_sku_sales' = MissingColumnsReturn(totals).sku_sales
  /\ ui' = [ui EXCEPT !.error = TRUE]
  /\ pc' = "done"
  /\ UNCHANGED << file_rows, fault, columns, chunk_size, pos, totals, accumulated_sales,
                  sku_count_for_pareto, average_roas, assessVars, detectVars >>

\* pmax_audit_tool.py:135-169: fold the next chunk
ProcessChunk ==
  /\ pc = "chunks"
  /\ ChunkReadable
  /\ MissingColumns(columns) = {}
  /\ LET chunk == ChunkAt(file_rows, pos, chunk_size)
     IN /\ totals' = FoldChunk(totals, chunk, columns)
        /\ pos' = pos + Len(chunk)
  /\ UNCHANGED << file_rows, fault, columns, chunk_size, pc, accumulated_sales,
                  sku_count_for_pareto, average_roas, insights, returned_sku_sales, ui, assessVars, detectVars >>

EarlyPareto ==
  /\ pc = "chunks"
  /\ fault.kind = "none"
  /\ accumulated_sales' = 0
  /\ sku_count_for_pareto' = 0
  /\ pc' = "pareto"
  /\ UNCHANGED << file_rows, fault, columns, chunk_size, pos, totals, average_roas,
                  insights, returned_sku_sales, ui, assessVars, detectVars >>

\* pmax_audit_tool.py:171-175: the reader is exhausted
StartPareto ==
  /\ pc = "chunks"
  /\ pos > Len(file_rows)
  /\ fault.kind # "empty"
  /\ accumulated_sales' = 0
  /\ sku_count_for_pareto' = 0
  /\ pc' = "pareto"
  /\ UNCHANGED << file_rows, fault, columns, chunk_size, pos, totals, average_roas,
                  insights, returned_sku_sales, ui, assessVars, detectVars >>

\* pmax_audit_tool.py:177-181: one iteration of the accumulation loop
ParetoStep ==
  /\ pc = "pareto"
  /\ sku_count_for_pareto < Len(sorted_skus(totals.sku_sales))
  /\ LET sku == sorted_skus(totals.sku_sales)[sku_count_for_pareto + 1]
         acc == accumulated_sales + totals.sku_sales[sku]
     IN /\ accumulated_sales' = acc
        /\ sku_count_for_pareto' = sku_count_for_pareto + 1
        /\ pc' = IF ReachedThreshold(acc, totals.total_conversion_value)
                 THEN "final" ELSE "pareto"
  /\ UNCHANGED << file_rows, fault, columns, chunk_size, pos, totals, average_roas,
                  insights, returned_sku_sales, ui, assessVars, detectVars >>

\* the loop runs out of items without a break
ParetoExhausted ==
  /\ pc = "pareto"
  /\ sku_count_for_pareto = Len(sorted_skus(totals.sku_sales))
  /\ pc' = "final"
  /\ UNCHANGED << file_rows, fault, columns, chunk_size, pos, totals, accumulated_sales,
                  sku_count_for_pareto, average_roas, insights, returned_sku_sales, ui, assessVars, detectVars >>

\* pmax_audit_tool.py:183-202: derived scalars and the return
Finalize ==
  /\ pc = "final"
  /\ LET roas == GuardedRoas(totals.total_conversion_value, totals.total_cost)
     IN /\ average_roas' = roas
        /\ insights' = BuildInsights(totals, roas, sku_count_for_pareto)
  /\ returned_sku_sales' = totals.sku_sales
  /\ pc' = "done"
  /\ UNCHANGED << file_rows, fault, columns, chunk_size, pos, totals, accumulated_sales,
                  sku_count_for_pareto, ui, assessVars, detectVars >>

RenderedUngated(ins, sku) ==
  IF ins # EmptyDict THEN {"summary_table", "metrics_chart", "pareto_chart"} ELSE {}

\* pmax_audit_tool.py:335-352: what run_web_ui renders for the returned pair
Rendered(ins, sku) ==
  IF ins # EmptyDict
  THEN {"summary_table", "metrics_chart"}
         \cup (IF sku # EmptyDict /\ ins["Total Conversion Value"] > 0
               THEN {"pareto_chart"} ELSE {})
  ELSE {}

\* df["Cumulative Sales"] at the n-th ranked item
RECURSIVE CumulativeSales(_, _)
CumulativeSales(tbl, n) ==
  IF n = 0 THEN 0
  ELSE CumulativeSales(tbl, n - 1) + tbl[sorted_skus(tbl)[n]]

\* create_pareto_chart: (df["Cumulative Percentage"] < 0.8).sum() + 1
sku_count_80(tbl, total_conversion_value) ==
  Cardinality({ n \in 1..Len(sorted_skus(tbl)) :
                  10 * CumulativeSales(tbl, n) < 8 * total_conversion_value }) + 1

\* the annotation of the Pareto chart when it is drawn
ChartAnnotation(ins, sku) ==
  IF "pareto_chart" \in Rendered(ins, sku)
  THEN sku_count_80(sku, ins["Total Conversion Value"])
  ELSE 0

\* pmax_audit_tool.py:333-352: run_web_ui after process_large_csv returned
RenderReport ==
  /\ pc = "done"
  /\ ui' = [ui EXCEPT !.rendered = Rendered(insights, returned_sku_sales),
                      !.sku_count_80 = ChartAnnotation(insights, returned_sku_sales)]
  /\ pc' = "shown"
  /\ UNCHANGED << file_rows, fault, columns, chunk_size, pos, totals, accumulated_sales,
                  sku_count_for_pareto, average_roas, insights, returned_sku_sales,
                  assessVars, detectVars >>

Next ==
  \/ CatchException
  \/ AbortMissingColumns
  \/ ProcessChunk
  \/ StartPareto
  \/ ParetoStep
  \/ ParetoExhausted
  \/ Finalize
  \/ RenderReport

Spec == Init /\ [][Next]_vars

\* ------------------------------------------------ detect_header_row: actions
\* the call process_large_csv(file_path) begins: pmax_audit_tool.py:101-114
InitDetect ==
  /\ lines \in LineFiles
  /\ fault \in LineFaults(lines)
  /\ dpc = "scan"
  /\ scan = 0
  /\ header_row = 0
  /\ header_line = 0
  /\ file_rows = <<>>
  /\ columns = {}
  /\ chunk_size = 1
  /\ pc = "detect"
  /\ pos = 1
  /\ totals = InitialTotals
  /\ accumulated_sales = 0
  /\ sku_count_for_pareto = 0
  /\ average_roas = Zero
  /\ insights = EmptyDict
  /\ returned_sku_sales = EmptyDict
  /\ ui = BlankPage
  /\ AssessIdle

\* the file iterator yields line scan: it is decoded without error
LineReadable ==
  /\ scan < Len(lines)
  /\ fault.kind = "undecodable" => fault.row > scan + 1

\* pmax_audit_tool.py:84-86: the line holds both tokens, return i
DetectFound ==
  /\ dpc = "scan"
  /\ LineReadable
  /\ IsHeaderLine(lines[scan + 1])
  /\ header_row' = scan
  /\ dpc' = "found"
  /\ UNCHANGED << lines, scan, header_line, streamVars, assessVars >>

\* pmax_audit_tool.py:84-85: the line does not, go on with the next one
DetectNext ==
  /\ dpc = "scan"
  /\ LineReadable
  /\ ~IsHeaderLine(lines[scan + 1])
  /\ scan' = scan + 1
  /\ UNCHANGED << lines, dpc, header_row, header_line, streamVars, assessVars >>

\* pmax_audit_tool.py:87-89: decoding raises, at the undecodable line or
\* before it when the file buffer runs ahead; the exception is logged, return 0
DetectRaises ==
  /\ dpc = "scan"
  /\ scan < Len(lines)
  /\ fault.kind = "undecodable"
  /\ scan + 1 <= fault.row
  /\ header_row' = 0
  /\ dpc' = "raised"
  /\ UNCHANGED << lines, scan, header_line, streamVars, assessVars >>

\* pmax_audit_tool.py:89: the loop ends without a match, return 0
DetectDefault ==
  /\ dpc = "scan"
  /\ scan = Len(lines)
  /\ header_row' = 0
  /\ dpc' = "default"
  /\ UNCHANGED << lines, scan, header_line, streamVars, assessVars >>

\* pmax_audit_tool.py:117-125: pd.read_csv(skiprows=header_row) takes its
\* header line and the chunks get their normalised columns
ReadHeader ==
  /\ pc = "detect"
  /\ dpc \in {"found", "default", "raised"}
  /\ fault.kind = "none"
  /\ FirstLineFrom(lines, header_row) < Len(lines)
  /\ header_line' = FirstLineFrom(lines, header_row)
  /\ columns' = ColumnsOfLine(lines[header_line' + 1])
  /\ pc' = "chunks"
  /\ UNCHANGED << lines, dpc, scan, header_row, file_rows, fault, chunk_size, pos,
                  totals, accumulated_sales, sku_count_for_pareto, average_roas,
                  insights, returned_sku_sales, ui, assessVars >>

\* pmax_audit_tool.py:117-123, 203-206: the reader raises (no line to take
\* as the header, or undecodable bytes) and the except clause returns
ReadHeaderRaises ==
  /\ pc = "detect"
  /\ dpc \in {"found", "default", "raised"}
  /\ fault.kind # "none" \/ FirstLineFrom(lines, header_row) = Len(lines)
  /\ insights' = ExceptionReturn(totals).insights
  /\ returned_sku_sales' = ExceptionReturn(totals).sku_sales
  /\ ui' = [ui EXCEPT !.error = TRUE]
  /\ pc' = "done"
  /\ UNCHANGED << detectVars, file_rows, fault, columns, chunk_size, pos, totals,
                  accumulated_sales, sku_count_for_pareto, average_roas, assessVars >>

NextDetect ==
  \/ DetectFound
  \/ DetectNext
  \/ DetectRaises
  \/ DetectDefault
  \/ ReadHeader
  \/ ReadHeaderRaises

SpecDetect == InitDetect /\ [][NextDetect]_vars

\* -------------------------------------- assess_product_performance: actions
StreamIdle ==
  /\ file_rows = <<>>
  /\ fault = NoFault
  /\ columns = {}
  /\ chunk_size = 1
  /\ pc = "idle"
  /\ pos = 1
  /\ totals = InitialTotals
  /\ accumulated_sales = 0
  /\ sku_count_for_pareto = 0
  /\ average_roas = Zero
  /\ insights = EmptyDict
  /\ returned_sku_sales = EmptyDict
  /\ ui = BlankPage

InitAssess ==
  /\ StreamIdle
  /\ DetectIdle
  /\ df \in Frames
  /\ headers \in HeaderChoices
  /\ df_columns = {}
  /\ apc = "clean"
  /\ overall = EmptyDict
  /\ df_sorted = <<>>
  /\ tier = 1
  /\ sku_contribution = EmptyDict
  /\ categories = <<>>
  /\ funnel_metrics = EmptyDict
  /\ report = EmptyDict

\* data_processing.py:147-167: clean the headers, coerce the numeric columns,
\* process the share column and take its mean
AssessClean ==
  /\ apc = "clean"
  /\ headers' = [i \in 1..Len(headers) |-> clean_column_names(headers[i])]
  /\ LET cols == ColumnsOf(headers')
     IN /\ df_columns' = cols
        /\ df' = [i \in 1..Len(df) |-> CoerceRow(df[i], cols)]
        /\ overall' = [average_search_impr_share |-> AverageShare(df, cols)]
  /\ apc' = "totals"
  /\ UNCHANGED << df_sorted, tier, sku_contribution, categories,
                  funnel_metrics, report, streamVars, detectVars >>

\* data_processing.py:179-187: overall totals, ROAS, and the descending sort
\* when the tier breakdown is computed
AssessTotals ==
  /\ apc = "totals"
  /\ LET total_conversion_value == ColumnTotal(df, df_columns, "conversion_value")
         total_cost == ColumnTotal(df, df_columns, "cost")
     IN /\ overall' = [average_search_impr_share |-> overall.average_search_impr_share,
                       total_conversion_value |-> total_conversion_value,
                       total_cost |-> total_cost,
                       roas |-> AssessRoas(total_conversion_value, total_cost)]
        /\ IF total_conversion_value > 0 /\ "conversion_value" \in df_columns
              /\ "cost" \in df_columns
           THEN /\ df_sorted' \in SortedFrames(df, 1..Len(df))
                /\ apc' = "tiers"
           ELSE /\ df_sorted' = df_sorted
                /\ apc' = "funnel"
  /\ tier' = 1
  /\ UNCHANGED << df, headers, df_columns, sku_contribution, categories, funnel_metrics,
                  report, streamVars, detectVars >>

\* data_processing.py:188-200: one threshold of the loop
AssessTier ==
  /\ apc = "tiers"
  /\ tier <= Len(sku_thresholds)
  /\ LET threshold == sku_thresholds[tier]
     IN sku_contribution' =
          [t \in DOMAIN sku_contribution \cup {threshold} |->
             IF t = threshold
             THEN TierEntry(df_sorted, Len(df), threshold, overall.total_conversion_value)
             ELSE sku_contribution[t]]
  /\ tier' = tier + 1
  /\ UNCHANGED << df, headers, df_columns, apc, overall, df_sorted, categories,
                  funnel_metrics, report, streamVars, detectVars >>

AssessTiersDone ==
  /\ apc = "tiers"
  /\ tier > Len(sku_thresholds)
  /\ apc' = "funnel"
  /\ UNCHANGED << df, headers, df_columns, overall, df_sorted, tier, sku_contribution,
                  categories, funnel_metrics, report, streamVars, detectVars >>

\* data_processing.py:203: funnel_metrics = calculate_funnel_metrics(df)
AssessFunnel ==
  /\ apc = "funnel"
  /\ funnel_metrics' = calculate_funnel_metrics(df, df_columns)
  /\ categories' = IF FunnelColumns \subseteq df_columns THEN Categorize(df) ELSE <<>>
  /\ apc' = "assemble"
  /\ UNCHANGED << df, headers, df_columns, overall, df_sorted, tier, sku_contribution,
                  report, streamVars, detectVars >>

\* data_processing.py:206-220: the returned insights
AssessReturn ==
  /\ apc = "assemble"
  /\ report' = [total_item_count |-> Len(df),
                total_conversion_value |-> overall.total_conversion_value,
                total_cost |-> overall.total_cost,
                average_search_impression_share |-> overall.average_search_impr_share,
                roas |-> overall.roas,
                sku_contribution |-> sku_contribution,
                funnel_metrics |-> funnel_metrics]
  /\ apc' = "done"
  /\ UNCHANGED << df, headers, df_columns, overall, df_sorted, tier, sku_contribution,
                  categories, funnel_metrics, streamVars, detectVars >>

NextAssess ==
  \/ AssessClean
  \/ AssessTotals
  \/ AssessTier
  \/ AssessTiersDone
  \/ AssessFunnel
  \/ AssessReturn

SpecAssess == InitAssess /\ [][NextAssess]_vars

\* ================================================================== claims
\* ---- helpers of the claims about process_large_csv
ReportReturned == pc \in {"done", "shown"} /\ insights # EmptyDict

Max(a, b) == IF a >= b THEN a ELSE b

\* the totals of a run over rows with chunk size k, folding from position p
RECURSIVE RunFrom(_, _, _, _, _)
RunFrom(acc, rows, p, k, cols) ==
  IF p > Len(rows) THEN acc
  ELSE RunFrom(FoldChunk(acc, ChunkAt(rows, p, k), cols), rows,
               p + Len(ChunkAt(rows, p, k)), k, cols)

RunTotals(rows, k, cols) == RunFrom(InitialTotals, rows, 1, k, cols)

ReportedTotals(acc) ==
  << acc.total_impressions, acc.total_clicks, acc.total_conversions,
     acc.total_conversion_value, acc.total_cost, acc.total_search_impr_share,
     acc.valid_search_impr_count >>

\* C1: the totals a run reports (impressions, clicks, conversions,
\* conversion value, cost, and the sum and count of defined share values
\* behind the average) with the chosen chunk size equal those of a run with
\* chunk size 1, of a run with the whole file as one chunk, and of a run with
\* any other chunk size.
ChunkingInvariance ==
  ReportReturned =>
    \A k \in ChunkSizes \cup {1, Max(1, Len(file_rows))} :
      << insights["Total Impressions"], insights["Total Clicks"],
         insights["Total Conversions"], insights["Total Conversion Value"],
         insights["Total Cost"], totals.total_search_impr_share,
         totals.valid_search_impr_count >>
        = ReportedTotals(RunTotals(file_rows, k, columns))

ChunkingWitness ==
  /\ ReportReturned
  /\ chunk_size = 2
  /\ Len(file_rows) = 3
  /\ totals.total_impressions > 0
  /\ totals.valid_search_impr_count > 0
  /\ insights["Total Impressions"] = RunTotals(file_rows, 1, columns).total_impressions

\* ---- C2
\* the contiguous partitions of rows: one per set of cut positions
RECURSIVE ChunksByCuts(_, _, _)
ChunksByCuts(rows, cuts, from) ==
  IF from > Len(rows) THEN <<>>
  ELSE LET later == { c \in cuts : c >= from }
           to == IF later = {} THEN Len(rows)
                 ELSE CHOOSE c \in later : \A d \in later : c <= d
       IN <<SubSeq(rows, from, to)>> \o ChunksByCuts(rows, cuts, to + 1)

Partitions(rows) ==
  { ChunksByCuts(rows, cuts, 1) : cuts \in SUBSET (1..(Len(rows) - 1)) }

RECURSIVE Orders(_)
Orders(S) ==
  IF S = {} THEN { <<>> }
  ELSE UNION { { <<i>> \o rest : rest \in Orders(S \ {i}) } : i \in S }

RECURSIVE FoldInOrder(_, _, _, _)
FoldInOrder(tbl, chunks, order, cols) ==
  IF order = <<>> THEN tbl
  ELSE FoldInOrder(FoldSkuSales(tbl, chunks[Head(order)], cols), chunks,
                   Tail(order), cols)

\* the revenue of the rows of the file carrying item id k
ItemRevenue(k) ==
  SumSeq([i \in 1..Len(file_rows) |->
            IF file_rows[i].item = k THEN ValueOf(file_rows[i]) ELSE 0])

ItemsOfFile ==
  IF "item id" \in columns
  THEN { file_rows[i].item : i \in 1..Len(file_rows) } \ {NoItem}
  ELSE {}

TopRevenue(tbl, j) ==
  IF j <= 0 THEN 0
  ELSE LET sums == { SumSet(tbl, S) : S \in { T \in SUBSET DOMAIN tbl : Cardinality(T) = j } }
       IN CHOOSE m \in sums : \A x \in sums : x <= m

ReportedM == insights["SKUs Driving 80% Sales"]
ReportedV == insights["Total Conversion Value"]

\* C3 as claimed: with V > 0 the top M items reach 0.8 V and the top M-1 do not.
ParetoTightAsClaimed ==
  (ReportReturned /\ ReportedV > 0) =>
    /\ 10 * TopRevenue(returned_sku_sales, ReportedM) >= 8 * ReportedV
    /\ ReportedM >= 1 =>
         10 * TopRevenue(returned_sku_sales, ReportedM - 1) < 8 * ReportedV

SomeGroupCovers ==
  \E j \in 1..Cardinality(DOMAIN returned_sku_sales) :
    10 * TopRevenue(returned_sku_sales, j) >= 8 * ReportedV

\* C3 amended: with V > 0 the top M-1 items stay below 0.8 V; the top M items
\* reach 0.8 V whenever some leading group of the ranking does; otherwise M
\* is the number of distinct items and the whole table stays below 0.8 V.
ParetoTight ==
  (ReportReturned /\ ReportedV > 0) =>
    /\ ReportedM \in 0..Cardinality(DOMAIN returned_sku_sales)
    /\ ReportedM >= 1 =>
         10 * TopRevenue(returned_sku_sales, ReportedM - 1) < 8 * ReportedV
    /\ SomeGroupCovers =>
         10 * TopRevenue(returned_sku_sales, ReportedM) >= 8 * ReportedV
    /\ ~SomeGroupCovers => ReportedM = Cardinality(DOMAIN returned_sku_sales)

\* the boundary: the top M items make exactly 0.8 V, M-1 of them being fewer
ParetoTightWitness ==
  /\ ReportReturned
  /\ ReportedV > 0
  /\ ReportedM = 1
  /\ Cardinality(DOMAIN returned_sku_sales) = 2
  /\ 10 * TopRevenue(returned_sku_sales, ReportedM) = 8 * ReportedV

\* C4: with a completed total conversion value <= 0 the reported covering-set
\* size is 0 and the reported percentage of items is 0.
ParetoZeroGuard ==
  (ReportReturned /\ ReportedV <= 0) =>
    /\ ReportedM = 0
    /\ insights["Percentage of SKUs Driving 80% Sales"] = 0

GuardedRoasAsClaimed ==
  ReportReturned =>
    LET V == totals.total_conversion_value
        C == totals.total_cost
    IN /\ average_roas.den # 0
       /\ (V = 0 /\ C > 0) => average_roas.num = 0
       /\ (V > 0 /\ C = 0) => average_roas.num = 0
       /\ (C # 0 /\ ~(V = 0 /\ C > 0)) => average_roas.num * C = V * average_roas.den

\* ---- helpers of the claims about assess_product_performance
AssessDone == apc = "done"

FunnelSum(prefix) ==
  IF prefix = "ipc"
  THEN report.funnel_metrics.ipc_high_count + report.funnel_metrics.ipc_moderate_count
         + report.funnel_metrics.ipc_low_count
  ELSE report.funnel_metrics.cpc_high_count + report.funnel_metrics.cpc_moderate_count
         + report.funnel_metrics.cpc_low_count

\* C7: the High, Moderate and Low counts add up to the number of rows, for
\* impressions-per-click and for clicks-per-conversion.
FunnelCompleteness ==
  AssessDone =>
    /\ FunnelSum("ipc") = report.total_item_count
    /\ FunnelSum("cpc") = report.total_item_count

\* ---- C8
\* the mean of num/den over exactly the rows whose denominator is not zero
BandMean(num, den) ==
  MeanOver(df, num, den, { j \in 1..Len(df) : df[j][den] # 0 })

\* the banding rule for row i, ratio num/den, against the category cat
BandRule(i, num, den, cat) ==
  LET a == df[i][num]
      b == df[i][den]
      mean == BandMean(num, den)
      atMost09 == 10 * a * mean.den <= 9 * mean.num * b
      atMost11 == 10 * a * mean.den <= 11 * mean.num * b
  IN /\ cat = "High" <=> (b # 0 /\ atMost09)
     /\ cat = "Moderate" <=> (b # 0 /\ ~atMost09 /\ atMost11)
     /\ cat = "Low" <=> ((b # 0 /\ ~atMost11) \/ b = 0)

\* C8: every categorized row is High iff its ratio is defined and <= 0.9 mean,
\* Moderate iff defined and in (0.9 mean, 1.1 mean], Low iff > 1.1 mean or its
\* denominator is zero, the mean being taken over the rows with a non-zero
\* denominator; this for both ratios.
FunnelBanding ==
  (AssessDone /\ FunnelColumns \subseteq df_columns) =>
    /\ Len(categories) = Len(df)
    /\ report.funnel_metrics.avg_impressions_per_click.num
         * BandMean("impressions", "clicks").den
       = BandMean("impressions", "clicks").num
         * report.funnel_metrics.avg_impressions_per_click.den
    /\ \A i \in 1..Len(df) :
         /\ BandRule(i, "impressions", "clicks", categories[i].ipc_category)
         /\ BandRule(i, "clicks", "conversions", categories[i].cpc_category)

\* a frame with a row exactly at 0.9 mean (High), one exactly at 1.1 mean
\* (Moderate) and one with no clicks (Low)
FunnelBandingWitness ==
  /\ AssessDone
  /\ FunnelColumns \subseteq df_columns
  /\ \E i, j, k \in 1..Len(df) :
       LET mean == BandMean("impressions", "clicks")
       IN /\ df[i].clicks > 0 /\ categories[i].ipc_category = "High"
          /\ 10 * df[i].impressions * mean.den = 9 * mean.num * df[i].clicks
          /\ df[j].clicks > 0 /\ categories[j].ipc_category = "Moderate"
          /\ 10 * df[j].impressions * mean.den = 11 * mean.num * df[j].clicks
          /\ df[k].clicks = 0 /\ categories[k].ipc_category = "Low"

\* ---- C9
TiersReported == AssessDone /\ DOMAIN report.sku_contribution = {5, 10, 20, 50}

RatioLeq(p, q) == p.num * q.den <= q.num * p.den

TierPct(t) == report.sku_contribution[t].percentage

ItemsOfFrame == { df[i].item_id : i \in 1..Len(df) }

\* the cumulative revenue of every distinct item
ItemTable ==
  [k \in ItemsOfFrame |->
     SumSeq([i \in 1..Len(df) |-> IF df[i].item_id = k THEN df[i].conversion_value ELSE 0])]

\* C10: every tier counts floor(distinct items * t / 100) items and its
\* absolute revenue is that of the items with the highest cumulative per-item
\* revenue, its percentage that revenue's share of the global total.
TierSelectionAsClaimed ==
  TiersReported =>
    \A t \in {5, 10, 20, 50} :
      LET n == (Cardinality(ItemsOfFrame) * t) \div 100
          entry == report.sku_contribution[t]
      IN /\ entry.sku_count = n
         /\ entry.conversion_value = TopRevenue(ItemTable, n)
         /\ entry.percentage.num * report.total_conversion_value
              = 100 * TopRevenue(ItemTable, n) * entry.percentage.den

\* ---- C11
\* the share value the claim gives a raw cell, in percent: "--" and the empty
\* cell are missing, "< 10" is 5, anything else is its number without the
\* trailing "%"
ClaimedShare(cell) ==
  IF cell = <<>> \/ cell = <<"-", "-">> THEN [ok |-> FALSE, val |-> 0]
  ELSE IF cell = <<"<", " ", "1", "0">> THEN [ok |-> TRUE, val |-> 5]
  ELSE to_numeric(RStrip(cell, "%"))

ClaimedDefined(frame) ==
  { i \in 1..Len(frame) : ClaimedShare(frame[i].search_impression_share).ok }

ClaimedShareSum(frame) ==
  SumSet([i \in ClaimedDefined(frame) |->
            ClaimedShare(frame[i].search_impression_share).val],
         ClaimedDefined(frame))

\* C11: the average search-impression-share of a frame with the column is
\* the mean of the claimed share values ("< 10" counted as 5 percent) over
\* the rows whose cell is neither "--" nor empty; those rows enter neither
\* the sum nor the count.
SharePlaceholdersAsClaimed ==
  [][(AssessClean /\ "search_impression_share" \in df_columns'
        /\ ClaimedDefined(df) # {})
     => /\ overall'.average_search_impr_share.ok
        /\ overall'.average_search_impr_share.num * Cardinality(ClaimedDefined(df))
             = ClaimedShareSum(df) * overall'.average_search_impr_share.den]_apc

\* ---- C12
\* the number the claim gives a count or currency cell: what is left of the
\* cell after dropping every character but digits and the decimal point,
\* parsed; 0 when that does not parse
ClaimedNumber(cell) ==
  LET kept == SelectSeq(cell, LAMBDA c : c \in Digits \/ c = ".")
  IN IF ParseUnsigned(kept).ok THEN ParseUnsigned(kept).val ELSE 0

ClaimedColumnTotal(col) ==
  SumSeq([i \in 1..Len(file_rows) |-> ClaimedNumber(file_rows[i][col])])

\* C12: every reported column total (impressions, clicks, conversions,
\* conversion value, cost) is the sum over the rows of the cell's digits and
\* decimal point parsed to a number, 0 for a cell that does not parse; so
\* every coerced value and every total is non-negative.
RowCoercionAsClaimed ==
  ReportReturned =>
    /\ insights["Total Impressions"] = ClaimedColumnTotal("impr")
    /\ insights["Total Clicks"] = ClaimedColumnTotal("clicks")
    /\ insights["Total Conversions"] = ClaimedColumnTotal("conversions")
    /\ insights["Total Conversion Value"] = ClaimedColumnTotal("value")
    /\ insights["Total Cost"] = ClaimedColumnTotal("cost")
    /\ \A i \in 1..Len(file_rows) :
         \A col \in {"impr", "clicks", "conversions", "value", "cost"} :
           CoerceRequired(file_rows[i][col]) >= 0

\* ---- C13
\* the raw headers that correspond to a canonical alias, with the canonical
\* field name of each
CanonicalAlias ==
     (<<"I", "t", "e", "m", " ", "I", "D">>
        :> <<"i", "t", "e", "m", "_", "i", "d">>)
  @@ (<<"I", "m", "p", "r", ".">>
        :> <<"i", "m", "p", "r", "e", "s", "s", "i", "o", "n", "s">>)
  @@ (<<"I", "M", "P", "R", ".">>
        :> <<"i", "m", "p", "r", "e", "s", "s", "i", "o", "n", "s">>)
  @@ (<<"C", "l", "i", "c", "k", "s">>
        :> <<"c", "l", "i", "c", "k", "s">>)
  @@ (<<"C", "o", "n", "v", "e", "r", "s", "i", "o", "n", "s">>
        :> <<"c", "o", "n", "v", "e", "r", "s", "i", "o", "n", "s">>)
  @@ (<<"C", "o", "n", "v", ".", " ", "v", "a", "l", "u", "e">>
        :> <<"c", "o", "n", "v", "e", "r", "s", "i", "o", "n", "_", "v", "a", "l", "u", "e">>)
  @@ (<<"C", "o", "s", "t">>
        :> <<"c", "o", "s", "t">>)
  @@ (<<" ", "c", "o", "s", "t", " ">>
        :> <<"c", "o", "s", "t">>)
  @@ (<<"S", "e", "a", "r", "c", "h", " ", "i", "m", "p", "r", ".", " ", "s", "h", "a", "r", "e">>
        :> <<"s", "e", "a", "r", "c", "h", "_", "i", "m", "p", "r", "e", "s", "s", "i", "o", "n", "_", "s", "h", "a", "r", "e">>)
  @@ (<<"S", "e", "a", "r", "c", "h", " ", "I", "m", "p", "r", ".", " ", "S", "h", "a", "r", "e">>
        :> <<"s", "e", "a", "r", "c", "h", "_", "i", "m", "p", "r", "e", "s", "s", "i", "o", "n", "_", "s", "h", "a", "r", "e">>)
  @@ (<<"C", "o", "n", "v", ".", " ", "v", "a", "l", "u", "e", " ", "/", " ", "c", "o", "s", "t">>
        :> <<"c", "o", "n", "v", "e", "r", "s", "i", "o", "n", "_", "v", "a", "l", "u", "e", "_", "c", "o", "s", "t">>)

\* the header h comes out as out with nothing changed but the case, the
\* surrounding blanks, and "_" in place of every blank and "."
PassedNormalized(h, out) ==
  LET s == StrStrip(h)
  IN /\ Len(out) = Len(s)
     /\ \A k \in 1..Len(s) :
          out[k] = IF s[k] = " " \/ s[k] = "." THEN "_" ELSE str_lower(s[k])

\* C13 as claimed: cleaning maps every header that corresponds to a
\* canonical alias to the alias's canonical field name and leaves every other
\* header unchanged.
HeaderNormalizationAsClaimed ==
  [][AssessClean =>
       /\ Len(headers') = Len(headers)
       /\ \A i \in 1..Len(headers) :
            IF headers[i] \in DOMAIN CanonicalAlias
            THEN headers'[i] = CanonicalAlias[headers[i]]
            ELSE headers'[i] = headers[i]]_apc

\* C13 amended: cleaning maps every header that corresponds to a canonical
\* alias to the alias's canonical field name; every other header passes
\* through stripped and lower-cased with "_" for every blank and ".".
HeaderNormalization ==
  [][AssessClean =>
       /\ Len(headers') = Len(headers)
       /\ \A i \in 1..Len(headers) :
            IF headers[i] \in DOMAIN CanonicalAlias
            THEN headers'[i] = CanonicalAlias[headers[i]]
            ELSE PassedNormalized(headers[i], headers'[i])]_apc

\* a cleaned header row with aliases mapped (among them the padded " cost "
\* and the upper-case "IMPR.") and the column "Avg. CPC" passed through
HeaderNormalizationWitness ==
  /\ apc = "totals"
  /\ Len(headers) = 10
  /\ headers[2] = <<"i", "m", "p", "r", "e", "s", "s", "i", "o", "n", "s">>
  /\ headers[6] = <<"c", "o", "s", "t">>
  /\ headers[8] = <<"c", "o", "n", "v", "e", "r", "s", "i", "o", "n", "_", "v", "a", "l", "u", "e", "_", "c", "o", "s", "t">>
  /\ headers[9] = <<"a", "v", "g", "_", "_", "c", "p", "c">>
  /\ "impressions" \in df_columns

\* ---- C14
\* C14: a call during which reading the file raised (empty file, undecodable
\* bytes in the first or in a later chunk) ends by returning an empty insights
\* mapping and an empty per-item table, whatever was folded before; and a
\* file that makes reading raise never gets a report.
NoErrorEscapes ==
  /\ (pc \in {"done", "shown"} /\ fault.kind # "none") =>
       /\ insights = EmptyDict
       /\ returned_sku_sales = EmptyDict
  /\ fault.kind # "none" => pc \in {"chunks", "done", "shown"}

\* the third chunk raises after two chunks were folded
NoErrorEscapesWitness ==
  /\ pc = "done"
  /\ fault = [kind |-> "undecodable", row |-> 3]
  /\ chunk_size = 1
  /\ pos = 3
  /\ totals.total_impressions > 0
  /\ DOMAIN totals.sku_sales # {}
  /\ insights = EmptyDict
  /\ returned_sku_sales = EmptyDict

\* ---- C15
IsFinite(q) == q.den # 0

\* C15: every derived metric of a produced report is a finite number: the
\* overall ROAS, the average search-impression-share, the tiers' percentages
\* and ROAS, the funnel means, standard deviations and band percentages.
DerivedMetricsFinite ==
  AssessDone =>
    /\ IsFinite(report.roas)
    /\ report.average_search_impression_share.ok
    /\ IsFinite(report.average_search_impression_share)
    /\ \A t \in DOMAIN report.sku_contribution :
         /\ IsFinite(report.sku_contribution[t].percentage)
         /\ IsFinite(report.sku_contribution[t].roas)
    /\ IsFinite(report.funnel_metrics.avg_impressions_per_click)
    /\ IsFinite(report.funnel_metrics.avg_clicks_per_conversion)
    /\ report.funnel_metrics.std_impressions_per_click.ok
    /\ IsFinite(report.funnel_metrics.std_impressions_per_click)
    /\ report.funnel_metrics.std_clicks_per_conversion.ok
    /\ IsFinite(report.funnel_metrics.std_clicks_per_conversion)
    /\ \A f \in {"ipc_high_percent", "ipc_moderate_percent", "ipc_low_percent",
                 "cpc_high_percent", "cpc_moderate_percent", "cpc_low_percent"} :
         IsFinite(report.funnel_metrics[f])

\* ---- C16
\* the rows of the file whose share cell has a value after coercion
DefinedShareRows ==
  IF "search impr. share" \in columns
  THEN { i \in 1..Len(file_rows) : CoerceShare(file_rows[i].share).ok }
  ELSE {}

DefinedShareSum ==
  SumSet([i \in DefinedShareRows |-> CoerceShare(file_rows[i].share).val],
         DefinedShareRows)

\* C16: the reported average search-impression-share is the sum of the
\* defined share values of all rows divided by the number of rows with a
\* defined value (rounded to two decimals), whatever the chunking; rows with
\* a missing share and files without the column count for nothing, and the
\* average is 0 when no row has a defined value.
AverageShareDefinedRows ==
  ReportReturned =>
    /\ totals.valid_search_impr_count = Cardinality(DefinedShareRows)
    /\ totals.total_search_impr_share = DefinedShareSum
    /\ insights["Average Search Impression Share"] =
         IF DefinedShareRows = {} THEN 0
         ELSE Round2(DefinedShareSum, Cardinality(DefinedShareRows))

\* three rows in three chunks: 50%, a missing "--", 20; the average is 35
AverageShareWitness ==
  /\ ReportReturned
  /\ chunk_size = 1
  /\ Len(file_rows) = 3
  /\ Cardinality(DefinedShareRows) = 2
  /\ DefinedShareSum = 70
  /\ insights["Average Search Impression Share"] = 3500

\* ---- C17
\* the second pass has begun: the accumulation loop, the derived scalars, or
\* the returned report
ParetoStarted == pc \in {"pareto", "final"} \/ ReportReturned

\* every chunk of the file has been folded into the totals
AllFolded ==
  /\ pos > Len(file_rows)
  /\ totals = RunTotals(file_rows, chunk_size, columns)

\* C17: the Pareto accumulation and the derived scalars exist only once the
\* last chunk is folded, and are computed from the completed totals and
\* per-item table; from the start of the Pareto computation on no chunk is
\* folded and the totals and the table no longer change.
PassOrdering ==
  /\ [](ParetoStarted => AllFolded)
  /\ [](pc = "chunks" =>
          sku_count_for_pareto = 0 /\ accumulated_sales = 0 /\ insights = EmptyDict)
  /\ [](ReportReturned =>
          /\ insights["Total Conversion Value"]
               = RunTotals(file_rows, chunk_size, columns).total_conversion_value
          /\ returned_sku_sales = RunTotals(file_rows, chunk_size, columns).sku_sales)
  /\ [][ParetoStarted => (ParetoStarted' /\ totals' = totals /\ pos' = pos)]_vars

\* the accumulation loop under way after two chunks of a three-row file
PassOrderingWitness ==
  /\ pc = "pareto"
  /\ sku_count_for_pareto = 1
  /\ chunk_size = 2
  /\ Len(file_rows) = 3
  /\ pos = 4
  /\ totals.total_conversion_value > 0

\* ---- C18
\* the ingestion ended with a fatal error: reading raised, or the first chunk
\* lacked a required column
FatalIngestion ==
  \/ fault.kind # "none"
  \/ MissingColumns(columns) # {} /\ Len(file_rows) >= 1

HoldsToken(line, pat) ==
  \E i \in 1..Len(line) : \E j \in i..Len(line) : SubSeq(line, i, j) = pat

HoldsBothTokens(line) ==
  /\ HoldsToken(line, <<"I", "t", "e", "m", " ", "I", "D">>)
  /\ HoldsToken(line, <<"I", "m", "p", "r", ".">>)

FirstHeaderIndexes ==
  { i \in 0..(Len(lines) - 1) :
      /\ HoldsBothTokens(lines[i + 1])
      /\ \A j \in 0..(i - 1) : ~HoldsBothTokens(lines[j + 1]) }

HeaderRowDetection ==
  /\ dpc = "found" => header_row \in FirstHeaderIndexes
  /\ dpc = "default" => (header_row = 0 /\ FirstHeaderIndexes = {})
  /\ dpc = "raised" => (header_row = 0 /\ fault.kind = "undecodable")
  /\ (dpc \in {"found", "default"} /\ fault.kind = "none" /\ FirstHeaderIndexes # {})
       => dpc = "found"
  /\ (dpc = "found" /\ pc = "chunks")
       => (header_line = header_row
           /\ columns = ColumnsOfLine(lines[header_row + 1]))

HeaderRowDetectionWitness ==
  /\ dpc = "found"
  /\ pc = "chunks"
  /\ header_row = 2
  /\ lines[1] = ItemListLine
  /\ lines[2] = BlankLine
  /\ "item id" \in columns
  /\ "impr." \in columns

\* ---------------------------------------------------------------------------
\* C20  The two Pareto counts agree: whenever the Pareto chart is drawn, the
\* count it shows (items whose cumulative share is < 0.8, plus 1) equals the
\* "SKUs Driving 80% Sales" count of process_large_csv for the same table and
\* total, also when rows without an item id leave the per-item revenues
\* below 0.8 of the total.
ParetoCountsAgree ==
  (pc = "shown" /\ "pareto_chart" \in ui.rendered)
    => ui.sku_count_80 = insights["SKUs Driving 80% Sales"]

\* ---------------------------------------------------------------------------
\* ---- C21
\* the sum of all values in sku_sales
SkuSalesSum == SumSet(totals.sku_sales, DOMAIN totals.sku_sales)

\* the rows of the chunks folded so far
FoldedRows == SubSeq(file_rows, 1, pos - 1)

\* the row came from a chunk with an item id column and carries an item id
CarriesItemId(r) == "item id" \in columns /\ r.item # NoItem

\* the coerced conversion values of the folded rows without an item id
UnattributedValue ==
  SumSeq([i \in 1..Len(FoldedRows) |->
            IF CarriesItemId(FoldedRows[i]) THEN 0 ELSE ValueOf(FoldedRows[i])])

====
